---- MODULE Spec2Model ----
(***************************************************************************)
(* City-care backend: complaints, resources, resource assignments and the  *)
(* complaint status history, as the request handlers of                    *)
(* backend/routes/admin_routes.py and backend/routes/user_routes.py keep   *)
(* them in the database declared in backend/dao.py.                        *)
(*                                                                         *)
(* The committed database is the variables complaints, resources,          *)
(* assignments, history and complaint_resources; now is the clock that     *)
(* datetime.utcnow reads.  Every request runs in its own SQLAlchemy        *)
(* session (utils.get_db); sessions are created with autoflush=False, so   *)
(* what a handler adds or changes stays private to its session until its   *)
(* db.commit(), and every query reads the committed database only.  A      *)
(* handler is therefore a sequence of steps (reads, then one commit), and  *)
(* sess[s] holds the position and the private state of the request that    *)
(* session s is serving.                                                   *)
(***************************************************************************)
EXTENDS Integers, Sequences, FiniteSets, TLC

\* ---------------------------------------------------------------- bounds
MaxBatch == 2          \* longest resource_ids list of one Assign request
MaxAssignments == 2    \* rows of resource_assignments
MaxHistory == 5        \* rows of complaint_status_history

\* ------------------------------------------------------------ id pools
ComplaintIds == {"c1", "c2"}
ResourceIds == {"r1", "r2"}
Sessions == {1, 2}
Users == {"u1"}
NoUser == "nobody"
AdminApiKeys == {"ops-key"}

None == "None"
ActiveStatuses == {"Assigned", "In Progress"}
AvailabilityValues == {"Available", "Busy", "Maintenance"}
Unset == "unset"

VARIABLES complaints, resources, assignments, history, complaint_resources,
          now, sess

vars == <<complaints, resources, assignments, history, complaint_resources,
          now, sess>>
store == <<complaints, resources, assignments, history, complaint_resources>>

\* ------------------------------------------------------------- helpers
RECURSIVE SumOver(_, _)
SumOver(f, S) ==
    IF S = {} THEN 0
    ELSE LET x == CHOOSE y \in S : TRUE IN f[x] + SumOver(f, S \ {x})

RECURSIVE SeqsUpTo(_, _)
SeqsUpTo(S, n) ==
    IF n = 0 THEN {<<>>}
    ELSE LET shorter == SeqsUpTo(S, n - 1)
         IN shorter \cup {Append(q, x) : q \in shorter, x \in S}

Indices(q) == 1..Len(q)

\* Resource.name as given to create_new_system_resource; one name per id.
ResourceName == [r \in ResourceIds |-> IF r = "r1" THEN "Truck" ELSE "Crew"]

UserName == [u \in Users |-> "Asha Rao"]

\* uuid4 defaults of the id columns: an id no row has yet.
FreshId(pool, used) == CHOOSE x \in pool \ used : TRUE

\* ResourceAssignment.status.in_(["Assigned", "In Progress"])
IsActive(a) == a.status \in ActiveStatuses

\* The rows the duplicate check and Unassign look for.
ActiveIndices(rows, c, r) ==
    {k \in Indices(rows) : /\ rows[k].complaint_id = c
                           /\ rows[k].resource_id = r
                           /\ IsActive(rows[k])}

\* ------------------------------------------------------------ sessions
IdleSession ==
    [pc |-> "idle", op |-> "none", complaint_id |-> None,
     resource_ids |-> <<>>, i |-> 0, assigned_resources |-> <<>>,
     loaded |-> [r \in ResourceIds |-> Unset], target |-> 0,
     status |-> None, user |-> None, flushed_at |-> 0, classifier |-> None,
     listing |-> <<>>, actor |-> None,
     response |-> [code |-> 0, assignedResources |-> <<>>]]

InFlight == {s \in Sessions : sess[s].pc # "idle"}

\* Rows the requests in flight may still insert.
PendingAssignments ==
    SumOver([s \in Sessions |->
                IF sess[s].pc \in {"assign_loop", "assign_commit"}
                THEN Len(sess[s].resource_ids) ELSE 0], Sessions)

PendingHistory ==
    Cardinality({s \in Sessions :
        sess[s].pc \in {"assign_loop", "assign_commit", "unassign_commit",
                        "submit_history", "admin_history"}})

\* A session free to serve a new request; limit is the number of requests
\* the deployment serves at once.
CanServe(s, limit) ==
    /\ sess[s].pc = "idle"
    /\ Cardinality(InFlight) < limit
    /\ \A t \in Sessions : t < s => sess[t].pc # "idle"

Init ==
    /\ complaints = [c \in {} |-> None]
    /\ resources = [r \in {} |-> None]
    /\ assignments = << >>
    /\ history = << >>
    /\ complaint_resources = {}
    /\ now = 1
    /\ sess = [s \in Sessions |-> IdleSession]

\* Column defaults datetime.utcnow (ComplaintStatusHistory.created_at,
\* ResourceAssignment.assigned_at): the INSERT of a row carries the reading
\* of the clock taken when the flush builds it, one reading per row.
Stamp(row, column, t) == (column :> t) @@ row

StampRows(rows, column, t) ==
    [k \in Indices(rows) |-> Stamp(rows[k], column, t + k - 1)]

\* ------------------------------------------------------------ resources
\* POST /api/admin/resources: availability_status and is_active take the
\* column defaults of dao.Resource.
create_new_system_resource(limit) ==
    /\ Cardinality(InFlight) < limit
    /\ DOMAIN resources # ResourceIds
    /\ LET id == FreshId(ResourceIds, DOMAIN resources)
       IN resources' = resources @@
              (id :> [name |-> ResourceName[id],
                      availability_status |-> "Available",
                      is_active |-> TRUE])
    /\ UNCHANGED <<complaints, assignments, history, complaint_resources,
                   now, sess>>

\* The fields of dto.ResourceUpdate the model follows; a request provides
\* one of them (model_dump(exclude_unset=True) drops the others).
ResourcePatches ==
    {p \in [provided : SUBSET {"availabilityStatus", "isActive"},
            availabilityStatus : AvailabilityValues,
            isActive : BOOLEAN] :
        /\ Cardinality(p.provided) = 1
        /\ "availabilityStatus" \notin p.provided
              => p.availabilityStatus = "Available"
        /\ "isActive" \notin p.provided => p.isActive}

\* setattr(resource, camel_to_snake(field), value) for each provided field
ApplyPatch(res, patch) ==
    [res EXCEPT
        !.availability_status =
            IF "availabilityStatus" \in patch.provided
            THEN patch.availabilityStatus ELSE @,
        !.is_active =
            IF "isActive" \in patch.provided THEN patch.isActive ELSE @]

\* PUT /api/admin/resources/{resource_id}: every provided field is written
\* as given, availability_status included.
update_existing_resource(limit, resource_id, patch) ==
    /\ Cardinality(InFlight) < limit
    /\ resource_id \in DOMAIN resources
    /\ resources' = [resources EXCEPT
                        ![resource_id] = ApplyPatch(@, patch)]
    /\ resources' # resources
    /\ UNCHANGED <<complaints, assignments, history, complaint_resources,
                   now, sess>>

\* DELETE /api/admin/resources/{resource_id}: soft delete.
deactivate_system_resource(limit, resource_id) ==
    /\ Cardinality(InFlight) < limit
    /\ resource_id \in DOMAIN resources
    /\ resources[resource_id].is_active
    /\ resources' = [resources EXCEPT ![resource_id].is_active = FALSE]
    /\ UNCHANGED <<complaints, assignments, history, complaint_resources,
                   now, sess>>

\* --------------------------------------------------------------- Assign
\* AssignBegin without the 404 of the complaint lookup: the loop runs for any
\* complaint id.
AssignBeginNoLookup(s, limit, actor, complaint_id, resource_ids) ==
    /\ CanServe(s, limit)
    /\ Len(assignments) + PendingAssignments + Len(resource_ids)
           <= MaxAssignments
    /\ Len(history) + PendingHistory < MaxHistory
    /\ sess' = [sess EXCEPT ![s] =
          [IdleSession EXCEPT
              !.pc = IF resource_ids = <<>> THEN "assign_commit"
                     ELSE "assign_loop",
              !.op = "assign", !.actor = actor,
              !.complaint_id = complaint_id,
              !.resource_ids = resource_ids,
              !.i = 1,
              !.status = IF complaint_id \in DOMAIN complaints
                         THEN complaints[complaint_id].status
                         ELSE None]]
    /\ UNCHANGED <<store, now>>

\* POST /api/admin/complaints/{complaint_id}/resources, up to the loop:
\* the complaint lookup and its 404.  actor is the caller, whose bearer
\* token get_admin_access has found among the admin keys.
AssignBegin(s, limit, actor, complaint_id, resource_ids) ==
    /\ CanServe(s, limit)
    /\ Len(assignments) + PendingAssignments + Len(resource_ids)
           <= MaxAssignments
    /\ Len(history) + PendingHistory < MaxHistory
    /\ sess' = [sess EXCEPT ![s] =
          IF complaint_id \notin DOMAIN complaints
          THEN [IdleSession EXCEPT
                   !.pc = "done", !.op = "assign", !.actor = actor,
                   !.complaint_id = complaint_id,
                   !.resource_ids = resource_ids,
                   !.response = [code |-> 404, assignedResources |-> <<>>]]
          ELSE [IdleSession EXCEPT
                   !.pc = IF resource_ids = <<>> THEN "assign_commit"
                          ELSE "assign_loop",
                   !.op = "assign", !.actor = actor,
                   !.complaint_id = complaint_id,
                   !.resource_ids = resource_ids,
                   !.i = 1,
                   !.status = complaints[complaint_id].status]]
    /\ UNCHANGED <<store, now>>

\* The resource row as this session sees it: the first load stays in the
\* session's identity map, later queries for the same id return that object.
LoadResource(q, resource_id) ==
    IF q.loaded[resource_id] # Unset THEN q.loaded
    ELSE [q.loaded EXCEPT ![resource_id] =
             resources[resource_id].availability_status]

\* AssignsResource without the status filter of the duplicate check: any
\* earlier assignment of the pair, cancelled ones included, blocks.
AssignsResourceNeverAssigned(complaint_id, resource_id) ==
    /\ resource_id \in DOMAIN resources
    /\ \A k \in Indices(assignments) :
          ~(/\ assignments[k].complaint_id = complaint_id
            /\ assignments[k].resource_id = resource_id)

\* AssignsResource with a duplicate check that looks at the resource alone:
\* an active assignment to any complaint blocks.
AssignsResourceIfFree(complaint_id, resource_id) ==
    /\ resource_id \in DOMAIN resources
    /\ \A k \in Indices(assignments) :
          ~(/\ assignments[k].resource_id = resource_id
            /\ IsActive(assignments[k]))

\* Does the loop body assign resource_id?  The resource must exist and the
\* committed rows must hold no active assignment of it to the complaint
\* (rows this session has added are not flushed and so not seen).
AssignsResource(complaint_id, resource_id) ==
    /\ resource_id \in DOMAIN resources
    /\ ActiveIndices(assignments, complaint_id, resource_id) = {}

\* One pass of the loop over assignment_data.resource_ids.
AssignIteration(q) ==
    LET resource_id == q.resource_ids[q.i]
        next == IF q.i = Len(q.resource_ids) THEN "assign_commit"
                ELSE "assign_loop"
    IN IF resource_id \notin DOMAIN resources
       THEN [q EXCEPT !.i = @ + 1, !.pc = next]
       ELSE IF ~AssignsResource(q.complaint_id, resource_id)
       THEN [q EXCEPT !.i = @ + 1, !.pc = next,
                      !.loaded = LoadResource(q, resource_id)]
       ELSE [q EXCEPT !.i = @ + 1, !.pc = next,
                      !.loaded = LoadResource(q, resource_id),
                      !.assigned_resources =
                          Append(@, [id |-> resource_id,
                                     name |-> resources[resource_id].name])]

\* AssignLoop with a commit in the loop body: the row of a resource goes to
\* the database as soon as the resource is assigned.
AssignLoopAutocommit(s) ==
    /\ sess[s].pc = "assign_loop"
    /\ LET q == AssignIteration(sess[s])
       IN /\ sess' = [sess EXCEPT ![s] = q]
          /\ assignments' =
                IF Len(q.assigned_resources) > Len(sess[s].assigned_resources)
                THEN Append(assignments,
                            [complaint_id |-> q.complaint_id,
                             resource_id |-> q.resource_ids[sess[s].i],
                             assigned_by |-> "Admin API",
                             assigned_at |-> now,
                             status |-> "Assigned",
                             end_time |-> None])
                ELSE assignments
    /\ UNCHANGED <<complaints, resources, history, complaint_resources, now>>

AssignLoop(s) ==
    /\ sess[s].pc = "assign_loop"
    /\ sess' = [sess EXCEPT ![s] = AssignIteration(@)]
    /\ UNCHANGED <<store, now>>

\* The rows db.add(assignment) queued, in the order they were added.
NewAssignments(q) ==
    [k \in Indices(q.assigned_resources) |->
        [complaint_id |-> q.complaint_id,
         resource_id |-> q.assigned_resources[k].id,
         assigned_by |-> "Admin API",
         status |-> "Assigned",
         end_time |-> None]]

AssignedIds(q) ==
    {q.assigned_resources[k].id : k \in Indices(q.assigned_resources)}

\* FlushBusy with the assignment to Busy moved above the duplicate check:
\* every requested resource that exists is set Busy, skipped or not.
FlushBusyRequested(q, res) ==
    [r \in DOMAIN res |->
        IF /\ \E k \in Indices(q.resource_ids) : q.resource_ids[k] = r
           /\ q.loaded[r] # "Busy"
        THEN [res[r] EXCEPT !.availability_status = "Busy"]
        ELSE res[r]]

\* resource.availability_status = "Busy": the flush writes the column of the
\* resources whose loaded value differs.
FlushBusy(q, res) ==
    [r \in DOMAIN res |->
        IF r \in AssignedIds(q) /\ q.loaded[r] # "Busy"
        THEN [res[r] EXCEPT !.availability_status = "Busy"]
        ELSE res[r]]

\* AssignHistoryRow naming every requested resource, assigned or not.
AssignHistoryRowOfRequest(q) ==
    [complaint_id |-> q.complaint_id,
     status |-> q.status,
     note |-> [text |-> "Resources assigned",
               names |-> [k \in Indices(q.resource_ids) |->
                             ResourceName[q.resource_ids[k]]]],
     updated_by |-> "Admin API"]

AssignHistoryRow(q) ==
    [complaint_id |-> q.complaint_id,
     status |-> q.status,
     note |-> [text |-> "Resources assigned",
               names |-> [k \in Indices(q.assigned_resources) |->
                             q.assigned_resources[k].name]],
     updated_by |-> "Admin API"]

\* The clock readings a flush of session q takes: those of flushed_at on
\* if the flush has run, those of now on if the commit runs it.
FlushTime(q) == IF q.flushed_at # 0 THEN q.flushed_at ELSE now

\* The rows an Assign inserts: one per assigned resource, and the history
\* row if there is any.
AssignInserts(q) ==
    IF q.assigned_resources # <<>> THEN Len(q.assigned_resources) + 1 ELSE 0

\* db.commit(), first half, when another worker can run between the two:
\* the flush builds the INSERTs, reading the clock for the column defaults.
AssignFlush(s) ==
    /\ sess[s].pc = "assign_commit"
    /\ sess[s].flushed_at = 0
    /\ sess[s].assigned_resources # <<>>
    /\ sess' = [sess EXCEPT ![s].flushed_at = now]
    /\ now' = now + AssignInserts(sess[s])
    /\ UNCHANGED store

\* The history row after the loop, and db.commit().
AssignCommit(s) ==
    /\ sess[s].pc = "assign_commit"
    /\ assignments' = assignments \o StampRows(NewAssignments(sess[s]),
                                               "assigned_at",
                                               FlushTime(sess[s]))
    /\ resources' = FlushBusy(sess[s], resources)
    /\ history' = IF sess[s].assigned_resources # <<>>
                  THEN Append(history,
                              Stamp(AssignHistoryRow(sess[s]), "created_at",
                                    FlushTime(sess[s])
                                        + Len(sess[s].assigned_resources)))
                  ELSE history
    /\ now' = IF sess[s].flushed_at # 0 THEN now
              ELSE now + AssignInserts(sess[s])
    /\ sess' = [sess EXCEPT ![s].pc = "done",
                   ![s].response =
                       [code |-> 200,
                        assignedResources |-> sess[s].assigned_resources]]
    /\ UNCHANGED <<complaints, complaint_resources>>

\* ------------------------------------------------------------- Unassign
\* DELETE /api/admin/complaints/{complaint_id}/resources/{resource_id}, up
\* to the commit: the lookup of an active assignment of the pair (first()
\* of an unordered query: any matching row) and its 404, the changes to
\* that row and to the resource, and the history row.
UnassignBegin(s, limit, actor, complaint_id, resource_id) ==
    /\ CanServe(s, limit)
    /\ Len(history) + PendingHistory < MaxHistory
    /\ LET found == ActiveIndices(assignments, complaint_id, resource_id)
           base == [IdleSession EXCEPT
                       !.op = "unassign", !.actor = actor,
                       !.complaint_id = complaint_id,
                       !.resource_ids = <<resource_id>>]
       IN IF found = {}
          THEN sess' = [sess EXCEPT ![s] =
                   [base EXCEPT
                       !.pc = "done",
                       !.response = [code |-> 404,
                                     assignedResources |-> <<>>]]]
          ELSE IF complaint_id \notin DOMAIN complaints
          THEN \* .first() is None and .status raises: a 500, nothing kept
               sess' = [sess EXCEPT ![s] =
                   [base EXCEPT
                       !.pc = "done",
                       !.response = [code |-> 500,
                                     assignedResources |-> <<>>]]]
          ELSE \E k \in found :
                 sess' = [sess EXCEPT ![s] =
                   [base EXCEPT
                       !.pc = "unassign_commit",
                       !.target = k,
                       !.loaded = IF resource_id \in DOMAIN resources
                                  THEN LoadResource(base, resource_id)
                                  ELSE base.loaded,
                       !.status = complaints[complaint_id].status]]
    /\ UNCHANGED <<store, now>>

\* CancelAssignment without the complaint in its filter: every active
\* assignment of the resource of row k is cancelled.
CancelAssignmentsOfResource(rows, k) ==
    [j \in Indices(rows) |->
        IF rows[j].resource_id = rows[k].resource_id /\ IsActive(rows[j])
        THEN [rows[j] EXCEPT !.status = "Cancelled", !.end_time = "set"]
        ELSE rows[j]]

\* CancelAssignment as db.delete(assignment): the row is removed.
DeleteAssignment(rows, k) ==
    SubSeq(rows, 1, k - 1) \o SubSeq(rows, k + 1, Len(rows))

\* assignment.status = "Cancelled"; assignment.end_time = now
CancelAssignment(rows, k) ==
    [rows EXCEPT ![k].status = "Cancelled", ![k].end_time = "set"]

\* resource.availability_status = "Available", whatever else the resource
\* is assigned to; the flush writes the column when the loaded value differs.
FlushAvailable(q, res) ==
    LET resource_id == q.resource_ids[1]
    IN [r \in DOMAIN res |->
           IF r = resource_id /\ q.loaded[r] \notin {Unset, "Available"}
           THEN [res[r] EXCEPT !.availability_status = "Available"]
           ELSE res[r]]

\* UnassignHistoryRow with the status of the assignment in the place of the
\* status of the complaint.
UnassignHistoryRowOfAssignment(q) ==
    [complaint_id |-> q.complaint_id,
     status |-> "Cancelled",
     note |-> [text |-> "Resource removed",
               names |-> <<IF q.loaded[q.resource_ids[1]] # Unset
                           THEN ResourceName[q.resource_ids[1]]
                           ELSE q.resource_ids[1]>>],
     updated_by |-> "Admin API"]

\* The history row of the removal; its status is the complaint's, read by
\* the query in the constructor call.
UnassignHistoryRow(q) ==
    [complaint_id |-> q.complaint_id,
     status |-> q.status,
     note |-> [text |-> "Resource removed",
               names |-> <<IF q.loaded[q.resource_ids[1]] # Unset
                           THEN ResourceName[q.resource_ids[1]]
                           ELSE q.resource_ids[1]>>],
     updated_by |-> "Admin API"]

\* UnassignCommit that records the removal by rewriting the latest history
\* row instead of adding one.
UnassignCommitRewritesHistory(s) ==
    /\ sess[s].pc = "unassign_commit"
    /\ assignments' = CancelAssignment(assignments, sess[s].target)
    /\ resources' = FlushAvailable(sess[s], resources)
    /\ history' = [history EXCEPT
                      ![Len(history)] =
                          Stamp(UnassignHistoryRow(sess[s]), "created_at",
                                FlushTime(sess[s]))]
    /\ now' = IF sess[s].flushed_at # 0 THEN now ELSE now + 1
    /\ sess' = [sess EXCEPT ![s].pc = "done", ![s].response.code = 200]
    /\ UNCHANGED <<complaints, complaint_resources>>

\* db.commit(), first half, when another worker can run between the two:
\* the flush builds the INSERT of the history row, reading the clock.
UnassignFlush(s) ==
    /\ sess[s].pc = "unassign_commit"
    /\ sess[s].flushed_at = 0
    /\ sess' = [sess EXCEPT ![s].flushed_at = now]
    /\ now' = now + 1
    /\ UNCHANGED store

\* db.commit() of the removal.
UnassignCommit(s) ==
    /\ sess[s].pc = "unassign_commit"
    /\ assignments' = CancelAssignment(assignments, sess[s].target)
    /\ resources' = FlushAvailable(sess[s], resources)
    /\ history' = Append(history,
                         Stamp(UnassignHistoryRow(sess[s]), "created_at",
                               FlushTime(sess[s])))
    /\ now' = IF sess[s].flushed_at # 0 THEN now ELSE now + 1
    /\ sess' = [sess EXCEPT ![s].pc = "done", ![s].response.code = 200]
    /\ UNCHANGED <<complaints, complaint_resources>>

\* ------------------------------------------------------ ListAssignments
\* The orders in which a query without ORDER BY can return the rows S.
Orderings(S) ==
    {q \in [1..Cardinality(S) -> S] :
        \A i \in DOMAIN q, j \in DOMAIN q : q[i] = q[j] => i = j}

\* The rows of resource_assignments for the complaint, joined to their
\* resource.
JoinedAssignments(complaint_id) ==
    {k \in Indices(assignments) :
        /\ assignments[k].complaint_id = complaint_id
        /\ assignments[k].resource_id \in DOMAIN resources}

\* GET /api/admin/complaints/{complaint_id}/resources: the complaint lookup
\* and its 404, then the assignments of the complaint as the query returns
\* them; the query names no order.
get_complaint_assigned_resources(s, limit, complaint_id) ==
    /\ CanServe(s, limit)
    /\ IF complaint_id \notin DOMAIN complaints
       THEN sess' = [sess EXCEPT ![s] =
                [IdleSession EXCEPT
                    !.pc = "done", !.op = "list",
                    !.complaint_id = complaint_id,
                    !.response.code = 404]]
       ELSE \E order \in Orderings(JoinedAssignments(complaint_id)) :
               sess' = [sess EXCEPT ![s] =
                [IdleSession EXCEPT
                    !.pc = "done", !.op = "list",
                    !.complaint_id = complaint_id,
                    !.listing = [i \in DOMAIN order |->
                                    assignments[order[i]]],
                    !.response.code = 200]]
    /\ UNCHANGED <<store, now>>

\* --------------------------------------------------- complaint creation
\* The column defaults of dao.Complaint.
NewComplaint == [status |-> "Open", priority |-> "Medium"]

\* What WatsonXService.analyze_priority gives for a description: the text
\* the model generated, stripped, whatever it is, or an exception (the call
\* to the model fails, or its reply has no results).
Priorities == {"Low", "Medium", "High"}
Raises == "raises"
ClassifierReplies == Priorities \cup {"high", "Urgent", "", Raises}

InitialHistoryRow(complaint_id, user) ==
    [complaint_id |-> complaint_id,
     status |-> "Open",
     note |-> [text |-> "Complaint submitted by citizen", names |-> <<>>],
     updated_by |-> UserName[user]]

\* priority=complaint_priority: the reply of the classifier as it is (a
\* reply stands for the text after strip()); utils.fallback_priority is not
\* called.
SubmittedPriority(reply) == reply

\* POST /api/complaints, first half: the classifier, the complaint row and
\* its commit.  An exception of the classifier leaves the handler before
\* the complaint is built.
SubmitComplaint(s, limit, user, reply) ==
    /\ CanServe(s, limit)
    /\ DOMAIN complaints # ComplaintIds
    /\ Len(history) + PendingHistory < MaxHistory
    /\ IF reply = Raises
       THEN /\ sess' = [sess EXCEPT ![s] =
                   [IdleSession EXCEPT
                       !.pc = "done", !.op = "submit", !.user = user,
                       !.classifier = reply, !.response.code = 500]]
            /\ UNCHANGED complaints
       ELSE LET id == FreshId(ComplaintIds, DOMAIN complaints)
            IN /\ complaints' = complaints @@
                      (id :> [NewComplaint EXCEPT
                                 !.priority = SubmittedPriority(reply)])
               /\ sess' = [sess EXCEPT ![s] =
                      [IdleSession EXCEPT
                          !.pc = "submit_history", !.op = "submit",
                          !.complaint_id = id, !.user = user,
                          !.classifier = reply]]
    /\ UNCHANGED <<resources, assignments, history, complaint_resources, now>>

\* POST /api/complaints, second half: the initial history row and its commit.
SubmitHistory(s) ==
    /\ sess[s].pc = "submit_history"
    /\ history' = Append(history,
                         Stamp(InitialHistoryRow(sess[s].complaint_id,
                                                 sess[s].user),
                               "created_at", now))
    /\ now' = now + 1
    /\ sess' = [sess EXCEPT ![s].pc = "done", ![s].response.code = 200]
    /\ UNCHANGED <<complaints, resources, assignments, complaint_resources>>

\* POST /api/admin/complaint, first half: the user lookup and its 404, the
\* complaint row and its commit.
AdminCreateComplaint(s, limit, user_email) ==
    /\ CanServe(s, limit)
    /\ IF user_email \notin Users
       THEN /\ sess' = [sess EXCEPT ![s] =
                   [IdleSession EXCEPT
                       !.pc = "done", !.op = "admin_create",
                       !.response.code = 404]]
            /\ UNCHANGED complaints
       ELSE /\ DOMAIN complaints # ComplaintIds
            /\ Len(history) + PendingHistory < MaxHistory
            /\ LET id == FreshId(ComplaintIds, DOMAIN complaints)
               IN /\ complaints' = complaints @@ (id :> NewComplaint)
                  /\ sess' = [sess EXCEPT ![s] =
                         [IdleSession EXCEPT
                             !.pc = "admin_history", !.op = "admin_create",
                             !.complaint_id = id, !.user = user_email]]
    /\ UNCHANGED <<resources, assignments, history, complaint_resources, now>>

\* POST /api/admin/complaint, second half.
AdminCreateHistory(s) ==
    /\ sess[s].pc = "admin_history"
    /\ history' = Append(history,
                         Stamp(InitialHistoryRow(sess[s].complaint_id,
                                                 sess[s].user),
                               "created_at", now))
    /\ now' = now + 1
    /\ sess' = [sess EXCEPT ![s].pc = "done", ![s].response.code = 200]
    /\ UNCHANGED <<complaints, resources, assignments, complaint_resources>>

\* ------------------------------------------------ end of a request
\* The request fails or is abandoned before its next step: the exception
\* leaves the handler, get_db closes the session and what the session had
\* not committed is rolled back.  A failure between the flush and the end of
\* db.commit() rolls back the same way; it is taken here as a failure before
\* the flush, which differs only in the clock readings it uses up.
Abort(s) ==
    /\ sess[s].pc \notin {"idle", "done"}
    /\ sess[s].flushed_at = 0
    /\ sess' = [sess EXCEPT ![s] = IdleSession]
    /\ UNCHANGED <<store, now>>

\* The response is sent and get_db closes the session.
Finish(s) ==
    /\ sess[s].pc = "done"
    /\ sess' = [sess EXCEPT ![s] = IdleSession]
    /\ UNCHANGED <<store, now>>

\* ------------------------------------------------------- specifications
ResourceIdLists == SeqsUpTo(ResourceIds, MaxBatch)

Requests(limit) ==
    \/ \E s \in Sessions, a \in AdminApiKeys, c \in ComplaintIds,
          ids \in ResourceIdLists :
           AssignBegin(s, limit, a, c, ids)
    \/ \E s \in Sessions, a \in AdminApiKeys, c \in ComplaintIds,
          r \in ResourceIds :
           UnassignBegin(s, limit, a, c, r)
    \/ \E s \in Sessions, c \in ComplaintIds :
           get_complaint_assigned_resources(s, limit, c)
    \/ \E s \in Sessions, u \in Users : SubmitComplaint(s, limit, u, "Medium")
    \/ \E s \in Sessions, u \in Users \cup {NoUser} :
           AdminCreateComplaint(s, limit, u)
    \/ create_new_system_resource(limit)
    \/ \E r \in ResourceIds, p \in ResourcePatches :
           update_existing_resource(limit, r, p)
    \/ \E r \in ResourceIds : deactivate_system_resource(limit, r)

Steps ==
    \/ \E s \in Sessions : AssignLoop(s)
    \/ \E s \in Sessions : AssignCommit(s)
    \/ \E s \in Sessions : UnassignCommit(s)
    \/ \E s \in Sessions : SubmitHistory(s)
    \/ \E s \in Sessions : AdminCreateHistory(s)
    \/ \E s \in Sessions : Abort(s)
    \/ \E s \in Sessions : Finish(s)

\* One request at a time: the handlers are coroutines without an await and
\* a single event loop runs each to its end.  The classifier of a submission
\* replies Medium here; SpecIntake follows its other replies.
Next == Requests(1) \/ Steps

Spec == Init /\ [][Next]_vars

\* Complaint intake, one request at a time, with every reply of the
\* classifier.
NextIntake ==
    \/ \E s \in Sessions, u \in Users, reply \in ClassifierReplies :
           SubmitComplaint(s, 1, u, reply)
    \/ \E s \in Sessions, u \in Users \cup {NoUser} :
           AdminCreateComplaint(s, 1, u)
    \/ \E s \in Sessions : SubmitHistory(s)
    \/ \E s \in Sessions : AdminCreateHistory(s)
    \/ \E s \in Sessions : Abort(s)
    \/ \E s \in Sessions : Finish(s)

SpecIntake == Init /\ [][NextIntake]_vars

\* Two requests at a time: two worker processes over one database.  The
\* requests are those of the assignment endpoints, and the database is one
\* that the requests of Spec have filled: both complaints submitted, both
\* resources created.
InitConc ==
    /\ complaints = [c \in ComplaintIds |-> NewComplaint]
    /\ resources = [r \in ResourceIds |->
                       [name |-> ResourceName[r],
                        availability_status |-> "Available",
                        is_active |-> TRUE]]
    /\ assignments = << >>
    /\ history = StampRows(<<InitialHistoryRow("c1", "u1"),
                             InitialHistoryRow("c2", "u1")>>, "created_at", 1)
    /\ complaint_resources = {}
    /\ now = 3
    /\ sess = [s \in Sessions |-> IdleSession]

NextConc ==
    \/ \E s \in Sessions, a \in AdminApiKeys, c \in ComplaintIds,
          ids \in ResourceIdLists :
           AssignBegin(s, 2, a, c, ids)
    \/ \E s \in Sessions, a \in AdminApiKeys, c \in ComplaintIds,
          r \in ResourceIds :
           UnassignBegin(s, 2, a, c, r)
    \/ \E s \in Sessions : AssignLoop(s)
    \/ \E s \in Sessions : AssignFlush(s)
    \/ \E s \in Sessions : AssignCommit(s)
    \/ \E s \in Sessions : UnassignFlush(s)
    \/ \E s \in Sessions : UnassignCommit(s)
    \/ \E s \in Sessions : Abort(s)
    \/ \E s \in Sessions : Finish(s)

SpecConc == InitConc /\ [][NextConc]_vars

\* ------------------------------------------------------------ properties
\* The steps that commit an Assign or an Unassign of session s.
AssignCommits(s) == sess[s].pc = "assign_commit" /\ sess'[s].pc = "done"
UnassignCommits(s) == sess[s].pc = "unassign_commit" /\ sess'[s].pc = "done"

Succeeded(s, op) ==
    sess[s].pc = "done" /\ sess[s].op = op /\ sess[s].response.code = 200

\* The active assignments of a resource, to any complaint.
ActiveOfResource(rows, r) ==
    {k \in Indices(rows) : rows[k].resource_id = r /\ IsActive(rows[k])}

\* C1: for every (complaint, resource) pair at most one assignment is
\* Assigned or In Progress, in every reachable state, also when two Assign
\* requests for the pair run at once in separate sessions.
C1_AtMostOneActivePerPair ==
    \A c \in ComplaintIds, r \in ResourceIds :
        Cardinality(ActiveIndices(assignments, c, r)) <= 1

\* C2: a resource is Busy if and only if it has an assignment that is
\* Assigned or In Progress, in every reachable state.
C2_BusyIffActiveAssignment ==
    \A r \in DOMAIN resources :
        (resources[r].availability_status = "Busy")
            <=> (ActiveOfResource(assignments, r) # {})

\* C3: after a successful Unassign(C, R) the availability of R is recomputed:
\* R stays Busy while it is actively assigned to another complaint, and is
\* Available only when it has no active assignment left.
C3_UnassignRecomputesAvailability ==
    \A s \in Sessions :
        Succeeded(s, "unassign") =>
            LET r == sess[s].resource_ids[1]
                elsewhere == {k \in ActiveOfResource(assignments, r) :
                                 assignments[k].complaint_id
                                     # sess[s].complaint_id}
            IN elsewhere # {} => resources[r].availability_status = "Busy"

\* C5: every complaint in the store has a history row, and its earliest row
\* has status Open, in every reachable state.
C5_ComplaintHasOpenHistory ==
    \A c \in DOMAIN complaints :
        LET rows == {k \in Indices(history) : history[k].complaint_id = c}
        IN /\ rows # {}
           /\ \A k \in rows :
                 (\A j \in rows : k <= j) => history[k].status = "Open"

\* The rows an Assign commit adds, and the row an Unassign commit changes.
AddedAssignments == SubSeq(assignments', Len(assignments) + 1, Len(assignments'))

ResponseIds(s) ==
    {sess'[s].response.assignedResources[k].id :
        k \in Indices(sess'[s].response.assignedResources)}

\* All the durable effects of an Assign that assigned something: its rows,
\* the Busy flags and one history row.
AssignFullEffect(s) ==
    /\ AssignCommits(s)
    /\ Len(AddedAssignments) >= 1
    /\ assignments' = assignments \o AddedAssignments
    /\ \A k \in Indices(AddedAssignments) :
          /\ AddedAssignments[k].complaint_id = sess[s].complaint_id
          /\ AddedAssignments[k].status = "Assigned"
          /\ resources'[AddedAssignments[k].resource_id].availability_status
                = "Busy"
    /\ Len(history') = Len(history) + 1
    /\ SubSeq(history', 1, Len(history)) = history
    /\ history'[Len(history')].note.text = "Resources assigned"

\* All the durable effects of an Unassign: the cancelled row, the Available
\* flag and one history row.
UnassignFullEffect(s) ==
    /\ UnassignCommits(s)
    /\ \E k \in Indices(assignments) :
          /\ IsActive(assignments[k])
          /\ assignments' = [assignments EXCEPT ![k].status = "Cancelled",
                                                ![k].end_time = "set"]
    /\ resources'[sess[s].resource_ids[1]].availability_status = "Available"
    /\ Len(history') = Len(history) + 1
    /\ SubSeq(history', 1, Len(history)) = history
    /\ history'[Len(history')].note.text = "Resource removed"

\* C4: Assign and Unassign are all-or-nothing: a step of such a request
\* either leaves complaints, resources, assignments and history as they are
\* (every step before the commit, a failure or abandonment included, and
\* the commit of an Assign that assigned nothing) or installs all the
\* effects of the request at once, exactly one history row among them.
C4_AssignUnassignAllOrNothing ==
    [][\A s \in Sessions :
          (/\ sess'[s] # sess[s]
           /\ {sess[s].op, sess'[s].op} \cap {"assign", "unassign"} # {})
          => \/ store' = store
             \/ AssignFullEffect(s)
             \/ UnassignFullEffect(s)]_vars

\* C4 witness: an Assign about to commit, with a resource to assign that the
\* committed rows do not show yet.
C4_Witness ==
    \E s \in Sessions :
        /\ sess[s].pc = "assign_commit"
        /\ sess[s].assigned_resources # <<>>
        /\ assignments = <<>>
        /\ \A k \in Indices(history) :
              history[k].note.text = "Complaint submitted by citizen"

\* C6: the commit of a batch Assign appends exactly one history row when the
\* call assigned at least one resource, naming exactly the resources the
\* call assigned, and no history row when it assigned none.
C6_OneHistoryRowPerBatch ==
    [][\A s \in Sessions :
          AssignCommits(s) =>
             /\ \A k \in Indices(AddedAssignments) :
                   AddedAssignments[k].complaint_id = sess[s].complaint_id
             /\ Len(AddedAssignments)
                   = Len(sess'[s].response.assignedResources)
             /\ IF AddedAssignments = <<>>
                THEN history' = history
                ELSE /\ Len(history') = Len(history) + 1
                     /\ SubSeq(history', 1, Len(history)) = history
                     /\ LET row == history'[Len(history')]
                        IN /\ row.complaint_id = sess[s].complaint_id
                           /\ row.note.text = "Resources assigned"
                           /\ row.note.names =
                                 [k \in Indices(AddedAssignments) |->
                                     ResourceName[
                                         AddedAssignments[k].resource_id]]]_vars

\* C6 witness: an Assign of two resources has committed, and the last
\* history row names both.
C6_Witness ==
    \E s \in Sessions :
        /\ Succeeded(s, "assign")
        /\ Len(sess[s].response.assignedResources) = 2
        /\ Len(assignments) = 2
        /\ assignments[1].resource_id # assignments[2].resource_id
        /\ history[Len(history)].note.names
              = <<ResourceName[assignments[1].resource_id],
                  ResourceName[assignments[2].resource_id]>>

\* C7: a batch Assign treats each requested id on its own: an id of an
\* unknown resource, of an inactive resource or of a resource already
\* actively assigned to the complaint is skipped, every other id is
\* assigned, and the result lists what was assigned.
C7_BatchSkipsFailingIds ==
    [][\A s \in Sessions :
          AssignCommits(s) =>
             LET c == sess[s].complaint_id
                 ids == {sess[s].resource_ids[k] :
                            k \in Indices(sess[s].resource_ids)}
                 failing == {r \in ids :
                               \/ r \notin DOMAIN resources
                               \/ ~resources[r].is_active
                               \/ ActiveIndices(assignments, c, r) # {}}
             IN /\ ResponseIds(s) = ids \ failing
                /\ {AddedAssignments[k].resource_id :
                       k \in Indices(AddedAssignments)} = ids \ failing]_vars

\* C8: an Unassign(C, R) that finds no active assignment of the pair fails
\* with 404 and changes nothing, and after a successful Unassign(C, R) the
\* pair has no active assignment, so that a second Unassign(C, R) fails
\* with 404.
C8_UnassignNotFound ==
    [][\A s \in Sessions :
          /\ (/\ sess[s].pc = "idle"
              /\ sess'[s].op = "unassign"
              /\ ActiveIndices(assignments, sess'[s].complaint_id,
                               sess'[s].resource_ids[1]) = {})
             => /\ sess'[s].pc = "done"
                /\ sess'[s].response.code = 404
                /\ store' = store
          /\ UnassignCommits(s)
             => ActiveIndices(assignments', sess[s].complaint_id,
                              sess[s].resource_ids[1]) = {}]_vars

\* C9: the commit of a successful Unassign(C, R) changes exactly one
\* assignment row, an active one of (C, R), to Cancelled with end_time set,
\* and appends exactly one history row to C that notes the removal of R.
C9_UnassignCancelsOneRow ==
    [][\A s \in Sessions :
          UnassignCommits(s) =>
             LET c == sess[s].complaint_id
                 r == sess[s].resource_ids[1]
             IN /\ \E k \in ActiveIndices(assignments, c, r) :
                      /\ assignments'[k].end_time # None
                      /\ assignments' =
                            [assignments EXCEPT
                                ![k].status = "Cancelled",
                                ![k].end_time = assignments'[k].end_time]
                /\ Len(history') = Len(history) + 1
                /\ SubSeq(history', 1, Len(history)) = history
                /\ LET row == history'[Len(history')]
                   IN /\ row.complaint_id = c
                      /\ row.note.text = "Resource removed"
                      /\ row.note.names = <<ResourceName[r]>>]_vars

\* C9 witness: an Unassign has committed; its row is Cancelled with an
\* end_time, another assignment row is still active, and the last history
\* row notes the removal.
C9_Witness ==
    \E s \in Sessions :
        /\ Succeeded(s, "unassign")
        /\ \E k \in Indices(assignments), j \in Indices(assignments) :
              /\ assignments[k].complaint_id = sess[s].complaint_id
              /\ assignments[k].resource_id = sess[s].resource_ids[1]
              /\ assignments[k].status = "Cancelled"
              /\ assignments[k].end_time # None
              /\ j # k
              /\ IsActive(assignments[j])
        /\ history[Len(history)].note.text = "Resource removed"
        /\ history[Len(history)].complaint_id = sess[s].complaint_id

\* C10: an Assign of a resource to a complaint it was unassigned from
\* succeeds: a cancelled assignment of the pair does not block; the commit
\* adds a new row in state Assigned for the pair, leaves the resource Busy
\* and appends one history row.
C10_ReassignAfterUnassign ==
    [][\A s \in Sessions :
          AssignCommits(s) =>
             \A i \in Indices(sess[s].resource_ids) :
                LET c == sess[s].complaint_id
                    r == sess[s].resource_ids[i]
                IN (/\ r \in DOMAIN resources
                    /\ ActiveIndices(assignments, c, r) = {}
                    /\ \E j \in Indices(assignments) :
                          /\ assignments[j].complaint_id = c
                          /\ assignments[j].resource_id = r
                          /\ assignments[j].status = "Cancelled")
                   => /\ \E k \in Indices(AddedAssignments) :
                            /\ AddedAssignments[k].complaint_id = c
                            /\ AddedAssignments[k].resource_id = r
                            /\ AddedAssignments[k].status = "Assigned"
                      /\ r \in ResponseIds(s)
                      /\ resources'[r].availability_status = "Busy"
                      /\ Len(history') = Len(history) + 1]_vars

\* C10 witness: an Assign has committed a new active row for a pair that
\* has an earlier cancelled row, and the resource is Busy.
C10_Witness ==
    \E s \in Sessions :
        /\ Succeeded(s, "assign")
        /\ \E j \in Indices(assignments), k \in Indices(assignments) :
              /\ j < k
              /\ assignments[j].complaint_id = sess[s].complaint_id
              /\ assignments[k].complaint_id = sess[s].complaint_id
              /\ assignments[j].resource_id = assignments[k].resource_id
              /\ assignments[j].status = "Cancelled"
              /\ assignments[k].status = "Assigned"
              /\ resources[assignments[k].resource_id].availability_status
                    = "Busy"
              /\ \E i \in Indices(sess[s].response.assignedResources) :
                    sess[s].response.assignedResources[i].id
                        = assignments[k].resource_id

\* The ids an Assign request names.
RequestedIds(s) ==
    {sess[s].resource_ids[k] : k \in Indices(sess[s].resource_ids)}

\* The resources of the rows an Assign commit adds.
AddedIds == {AddedAssignments[k].resource_id : k \in Indices(AddedAssignments)}

\* The active assignments of resource r to complaints other than c.
ActiveElsewhere(rows, c, r) ==
    {k \in ActiveOfResource(rows, r) : rows[k].complaint_id # c}

\* C11: an Assign to complaint C of a resource that exists, is active, has
\* no active assignment to C, is actively assigned to another complaint and
\* is Busy succeeds: the commit adds an Assigned row for the pair, the
\* response lists the resource, the assignment to the other complaint stays
\* active and the resource is still Busy.
C11_AssignWhenBusyElsewhere ==
    [][\A s \in Sessions :
          AssignCommits(s) =>
             \A r \in RequestedIds(s) :
                LET c == sess[s].complaint_id
                IN (/\ r \in DOMAIN resources
                    /\ resources[r].is_active
                    /\ ActiveIndices(assignments, c, r) = {}
                    /\ ActiveElsewhere(assignments, c, r) # {}
                    /\ resources[r].availability_status = "Busy")
                   => /\ sess'[s].response.code = 200
                      /\ r \in ResponseIds(s)
                      /\ \E k \in Indices(AddedAssignments) :
                            /\ AddedAssignments[k].complaint_id = c
                            /\ AddedAssignments[k].resource_id = r
                            /\ AddedAssignments[k].status = "Assigned"
                      /\ ActiveElsewhere(assignments', c, r)
                            = ActiveElsewhere(assignments, c, r)
                      /\ resources'[r].availability_status = "Busy"]_vars

\* C11 witness: an Assign has committed for a resource that another
\* complaint holds as well: the resource has an active row for each of the
\* two complaints, is active and is Busy.
C11_Witness ==
    \E s \in Sessions :
        /\ Succeeded(s, "assign")
        /\ \E j \in Indices(assignments), k \in Indices(assignments) :
              /\ j < k
              /\ assignments[k].complaint_id = sess[s].complaint_id
              /\ assignments[j].complaint_id # sess[s].complaint_id
              /\ assignments[j].resource_id = assignments[k].resource_id
              /\ IsActive(assignments[j])
              /\ IsActive(assignments[k])
              /\ resources[assignments[k].resource_id].is_active
              /\ resources[assignments[k].resource_id].availability_status
                    = "Busy"
              /\ \E i \in Indices(sess[s].response.assignedResources) :
                    sess[s].response.assignedResources[i].id
                        = assignments[k].resource_id

C13_DeactivatedNeverAssigned ==
    [][\A s \in Sessions :
          AssignCommits(s) =>
             \A r \in RequestedIds(s) \cap DOMAIN resources :
                ~resources[r].is_active
                   => /\ r \notin AddedIds
                      /\ r \notin ResponseIds(s)
                      /\ resources'[r].availability_status
                            = resources[r].availability_status]_vars

\* C14: the commit of an Assign or an Unassign leaves a resource in
\* Maintenance in Maintenance, and changes the availability_status of a
\* resource only from Available to Busy or from Busy to Available.
C14_MaintenanceSticky ==
    [][\A s \in Sessions :
          (AssignCommits(s) \/ UnassignCommits(s)) =>
             \A r \in DOMAIN resources :
                LET old == resources[r].availability_status
                    new == resources'[r].availability_status
                IN /\ old = "Maintenance" => new = "Maintenance"
                   /\ old # new =>
                         <<old, new>> \in {<<"Available", "Busy">>,
                                           <<"Busy", "Available">>}]_vars

\* C15: an Assign that names a resource in Maintenance skips it: the commit
\* adds no assignment row for it and the response does not list it.
C15_MaintenanceBlocksAssign ==
    [][\A s \in Sessions :
          AssignCommits(s) =>
             \A r \in RequestedIds(s) \cap DOMAIN resources :
                resources[r].availability_status = "Maintenance"
                   => /\ r \notin AddedIds
                      /\ r \notin ResponseIds(s)]_vars

\* The statuses of a complaint, and whether the system can take a step that
\* moves complaint c to status target.
StatusValues == {"Open", "In Progress", "Resolved", "Cancelled"}

CanTransition(c, target) == ENABLED (Next /\ complaints'[c].status = target)

\* C16: in every reachable state the status of every complaint is Open, In
\* Progress, Resolved or Cancelled; a complaint that is Open can be moved to
\* Resolved directly; and no step moves a complaint from Resolved to In
\* Progress.
C16_TransitionsFollowTable ==
    /\ [](\A c \in DOMAIN complaints :
             /\ complaints[c].status \in StatusValues
             /\ (complaints[c].status = "Open" /\ InFlight = {})
                   => CanTransition(c, "Resolved"))
    /\ [][\A c \in DOMAIN complaints :
             ~(/\ complaints[c].status = "Resolved"
               /\ complaints'[c].status = "In Progress")]_vars

\* C17: a complaint that is Open can be moved to Cancelled directly, and a
\* complaint that is Cancelled stays Cancelled in every later state.
C17_CancelledIsTerminal ==
    /\ [](\A c \in DOMAIN complaints :
             (complaints[c].status = "Open" /\ InFlight = {})
                => CanTransition(c, "Cancelled"))
    /\ [][\A c \in DOMAIN complaints :
             complaints[c].status = "Cancelled"
                => complaints'[c].status = "Cancelled"]_vars

\* C19: the commit of an Assign that assigns at least one resource to a
\* complaint in status Open with no active assignment moves the complaint
\* to In Progress.
C19_FirstAssignmentStartsProgress ==
    [][\A s \in Sessions :
          (/\ AssignCommits(s)
           /\ AddedAssignments # <<>>
           /\ complaints[sess[s].complaint_id].status = "Open"
           /\ \A k \in Indices(assignments) :
                 assignments[k].complaint_id = sess[s].complaint_id
                    => ~IsActive(assignments[k]))
          => complaints'[sess[s].complaint_id].status = "In Progress"]_vars

\* The history rows of complaint c, oldest first.
HistoryOf(h, c) == SelectSeq(h, LAMBDA row : row.complaint_id = c)

\* C20: the status history is append-only: every step of every operation
\* leaves each history row that exists as it is, in every column and in
\* its place, and removes none; so the history of every complaint after
\* the step extends its history before the step.
C20_HistoryAppendOnly ==
    [][/\ Len(history') >= Len(history)
       /\ SubSeq(history', 1, Len(history)) = history
       /\ \A c \in ComplaintIds :
             /\ Len(HistoryOf(history', c)) >= Len(HistoryOf(history, c))
             /\ SubSeq(HistoryOf(history', c), 1, Len(HistoryOf(history, c)))
                   = HistoryOf(history, c)]_vars

\* C20 witness: the history holds the row of a submission, after it the row
\* of an Assign and after that the row of an Unassign: rows that later
\* operations found in place and left as they were.
C20_Witness ==
    \E i \in Indices(history), j \in Indices(history), k \in Indices(history) :
        /\ i < j
        /\ j < k
        /\ history[i].note.text = "Complaint submitted by citizen"
        /\ history[i].status = "Open"
        /\ history[j].note.text = "Resources assigned"
        /\ history[k].note.text = "Resource removed"
        /\ history[j].complaint_id = history[i].complaint_id
        /\ history[k].complaint_id = history[i].complaint_id

\* C21: the history rows of a complaint are totally ordered by created_at in
\* the order of their commits, also when several requests write history
\* for the complaint at once: of two rows of one complaint the one
\* committed earlier has the smaller created_at, and no two have the same.
C21_HistoryOrderedByCreatedAt ==
    \A i \in Indices(history), j \in Indices(history) :
        (i < j /\ history[i].complaint_id = history[j].complaint_id)
            => history[i].created_at < history[j].created_at

\* The moves of ResourceAssignment.status.
ForwardMoves ==
    {<<"Assigned", "In Progress">>, <<"In Progress", "Completed">>,
     <<"Assigned", "Cancelled">>, <<"In Progress", "Cancelled">>}

\* C22: no step removes an assignment row; a step leaves the status of a
\* row as it is or moves it forward (Assigned to In Progress, In Progress to
\* Completed, an active status to Cancelled), so that a Cancelled or
\* Completed row never becomes active again; and a row is created Assigned.
C22_AssignmentStatusForwardOnly ==
    [][/\ Len(assignments') >= Len(assignments)
       /\ \A k \in Indices(assignments) :
             /\ assignments'[k].complaint_id = assignments[k].complaint_id
             /\ assignments'[k].resource_id = assignments[k].resource_id
             /\ \/ assignments'[k].status = assignments[k].status
                \/ <<assignments[k].status, assignments'[k].status>>
                      \in ForwardMoves
       /\ \A k \in Indices(assignments') \ Indices(assignments) :
             assignments'[k].status = "Assigned"]_vars

\* C22 witness: no request is in flight; an assignment has been cancelled
\* and a row created after it is Assigned.
C22_Witness ==
    /\ InFlight = {}
    /\ \E j \in Indices(assignments), k \in Indices(assignments) :
          /\ j < k
          /\ assignments[j].status = "Cancelled"
          /\ assignments[j].end_time # None
          /\ assignments[k].status = "Assigned"
          /\ assignments[k].end_time = None

\* C23: a submission whose classifier raises or replies anything other than
\* Low, Medium or High still creates the complaint, with priority Medium (a
\* reply that is a priority is the complaint's priority); and in every
\* reachable state the priority of every complaint is Low, Medium or High.
C23_PriorityFallsBackToMedium ==
    /\ [](\A c \in DOMAIN complaints : complaints[c].priority \in Priorities)
    /\ [][\A s \in Sessions :
             (sess[s].pc = "idle" /\ sess'[s].op = "submit")
                => /\ sess'[s].pc = "submit_history"
                   /\ sess'[s].complaint_id \in
                         DOMAIN complaints' \ DOMAIN complaints
                   /\ complaints'[sess'[s].complaint_id].priority =
                         IF sess'[s].classifier \in Priorities
                         THEN sess'[s].classifier ELSE "Medium"]_vars

\* C24: a ListAssignments of an existing complaint answers with every
\* assignment row of the complaint, whatever its status, each once, in
\* ascending order of assigned_at; a ListAssignments of a complaint that
\* does not exist fails with 404; and no ListAssignments changes the store.
C24_ListAssignmentsOrdered ==
    /\ [](\A s \in Sessions :
             Succeeded(s, "list") =>
                LET rows == sess[s].listing
                    mine == {k \in Indices(assignments) :
                                assignments[k].complaint_id
                                    = sess[s].complaint_id}
                IN /\ Len(rows) = Cardinality(mine)
                   /\ \A k \in mine : \E i \in Indices(rows) :
                         rows[i] = assignments[k]
                   /\ \A i \in Indices(rows), j \in Indices(rows) :
                         i < j => rows[i].assigned_at < rows[j].assigned_at)
    /\ [][\A s \in Sessions :
             (sess[s].pc = "idle" /\ sess'[s].op = "list")
                => /\ store' = store
                   /\ sess'[s].complaint_id \notin DOMAIN complaints
                         => sess'[s].response.code = 404]_vars

\* Complaint.resources: the resources the complaint_resources table links to
\* the complaint, as get_all_complaints_for_admin lists them.
ComplaintResources(c) ==
    {r \in DOMAIN resources : <<c, r>> \in complaint_resources}

\* C25: in every reachable state the resources listed as attached to a
\* complaint (Complaint.resources) are the resources that have an
\* assignment row for the complaint.
C25_LinkViewMatchesAssignments ==
    \A c \in DOMAIN complaints :
        ComplaintResources(c)
            = {assignments[k].resource_id :
                  k \in {j \in Indices(assignments) :
                            assignments[j].complaint_id = c}}

\* C26: the actor of a request is recorded as given: the commit of an
\* Assign writes the actor of the request as assigned_by of every row it
\* adds and as updated_by of its history row, and the commit of an Unassign
\* writes the actor of the request as updated_by of its history row.
C26_ActorRecordedVerbatim ==
    [][\A s \in Sessions :
          /\ AssignCommits(s) =>
                /\ \A k \in Indices(AddedAssignments) :
                      AddedAssignments[k].assigned_by = sess[s].actor
                /\ Len(history') > Len(history)
                      => history'[Len(history')].updated_by = sess[s].actor
          /\ UnassignCommits(s) =>
                history'[Len(history')].updated_by = sess[s].actor]_vars

\* C27: the commit of an Unassign leaves every complaint as it is, its status
\* included; the history row it appends, and the one the commit of an Assign
\* appends, has the status the complaint has in the committed state.
C27_HistoryRowCarriesComplaintStatus ==
    [][\A s \in Sessions :
          /\ UnassignCommits(s) =>
                /\ complaints' = complaints
                /\ Len(history') = Len(history) + 1
                /\ history'[Len(history')].complaint_id = sess[s].complaint_id
                /\ history'[Len(history')].status
                      = complaints'[sess[s].complaint_id].status
          /\ (AssignCommits(s) /\ Len(history') > Len(history)) =>
                /\ history'[Len(history')].complaint_id = sess[s].complaint_id
                /\ history'[Len(history')].status
                      = complaints'[sess[s].complaint_id].status]_vars

\* C27 witness: an Unassign has just succeeded; the last history row is its
\* removal row, an earlier row of the complaint is that of the Assign, and
\* both have the status of the complaint.
C27_Witness ==
    \E s \in Sessions :
        /\ Succeeded(s, "unassign")
        /\ LET c == sess[s].complaint_id
               last == history[Len(history)]
           IN /\ last.note.text = "Resource removed"
              /\ last.complaint_id = c
              /\ last.status = complaints[c].status
              /\ \E j \in Indices(history) :
                    /\ history[j].note.text = "Resources assigned"
                    /\ history[j].complaint_id = c
                    /\ history[j].status = complaints[c].status

\* How many elements of the sequence rows satisfy Test.
Count(rows, Test(_)) == Cardinality({k \in Indices(rows) : Test(rows[k])})

\* C28: the commit of an Assign whose list names a resource more than once
\* adds at most one assignment of that resource, leaves the pair with at
\* most one active assignment, and names the resource at most once in the
\* response and in the note of the history row.
C28_DuplicateIdsAssignedOnce ==
    [][\A s \in Sessions :
          AssignCommits(s) =>
             \A r \in RequestedIds(s) :
                /\ Count(AddedAssignments,
                         LAMBDA a : a.resource_id = r) <= 1
                /\ Cardinality(ActiveIndices(assignments',
                                             sess[s].complaint_id, r)) <= 1
                /\ Count(sess'[s].response.assignedResources,
                         LAMBDA e : e.id = r) <= 1
                /\ Len(history') > Len(history)
                      => Count(history'[Len(history')].note.names,
                               LAMBDA n : n = ResourceName[r]) <= 1]_vars

\* C29: of the Unassign requests that found the same active assignment only
\* one succeeds: a commit of an Unassign cancels a row that is still active
\* in the committed state (a request whose row another has cancelled fails
\* with 404 instead), so that in every reachable state a complaint has as
\* many removal rows in its history as it has cancelled assignments.
C29_ConcurrentUnassignOnce ==
    /\ [](\A c \in ComplaintIds :
             Count(history,
                   LAMBDA row : /\ row.complaint_id = c
                                /\ row.note.text = "Resource removed")
                = Count(assignments,
                        LAMBDA a : /\ a.complaint_id = c
                                   /\ a.status = "Cancelled"))
    /\ [][\A s \in Sessions :
             UnassignCommits(s) =>
                /\ IsActive(assignments[sess[s].target])
                /\ ~IsActive(assignments'[sess[s].target])]_vars

\* C30: in every reachable state every assignment row names a complaint and
\* a resource of the store and every history row names a complaint of the
\* store; an Assign of a complaint that is not in the store answers 404 at
\* once and leaves the store as it is; and the commit of an Assign adds rows
\* and response entries only for resources of the store.
C30_ReferencesResolve ==
    /\ [](/\ \A k \in Indices(assignments) :
                /\ assignments[k].complaint_id \in DOMAIN complaints
                /\ assignments[k].resource_id \in DOMAIN resources
          /\ \A j \in Indices(history) :
                history[j].complaint_id \in DOMAIN complaints)
    /\ [][\A s \in Sessions :
             /\ (/\ sess[s].pc = "idle"
                 /\ sess'[s].op = "assign"
                 /\ sess'[s].complaint_id \notin DOMAIN complaints)
                   => /\ sess'[s].pc = "done"
                      /\ sess'[s].response.code = 404
                      /\ store' = store
             /\ AssignCommits(s)
                   => /\ sess[s].complaint_id \in DOMAIN complaints
                      /\ AddedIds \subseteq DOMAIN resources
                      /\ ResponseIds(s) \subseteq DOMAIN resources]_vars

\* C30 witness: an Assign has just succeeded whose list named a resource
\* that is not in the store next to one that is: the response and the rows
\* of the complaint name the latter only; and a complaint id that requests
\* can name is not in the store.
C30_Witness ==
    \E s \in Sessions :
        /\ Succeeded(s, "assign")
        /\ \E k \in Indices(sess[s].resource_ids) :
              sess[s].resource_ids[k] \notin DOMAIN resources
        /\ sess[s].response.assignedResources # <<>>
        /\ \E k \in Indices(assignments) :
              /\ assignments[k].complaint_id = sess[s].complaint_id
              /\ assignments[k].resource_id \in DOMAIN resources
        /\ DOMAIN complaints # ComplaintIds

====
